---- MODULE Spec2Model ----
(***************************************************************************)
(* usageDetection.py: detection of active-usage start/stop times in a      *)
(* timestamped power signal.  The script runs top to bottom; every         *)
(* statement group of the script is one action, and pc is the position of  *)
(* the interpreter.  An uncaught exception ends the run in pc = "failed"   *)
(* with its name in err.                                                   *)
(*                                                                         *)
(* Arrays are sequences.  Python indexes from 0 and sequences from 1:      *)
(* the Python index i of an array a is a[i + 1]; every index the script    *)
(* computes (start_stop_time_index, the printed events) is kept 0-based.   *)
(* Real values are held in fixed point: signal values in hundredths, the   *)
(* filter coefficients in ten-thousandths.                                 *)
(***************************************************************************)
EXTENDS Integers, Sequences, FiniteSets, TLC

VARIABLES
    pc,                      \* position of the interpreter in the script
    err,                     \* name of the uncaught exception, "" when none
    csv,                     \* content of data-sample.csv: [ok, rows]
    signal_df,               \* [bound, rows]: rows are <<timestamp, power>>
    timestamp, power, time_index,
    fs, cutoff,
    coeffs,                  \* [b, a] returned by butter_lowpass
    lfilter_calls,           \* number of times lfilter has been invoked
    power_denoised,
    heap,                    \* the array objects smoothness works on, by address
    power_trend,             \* address of the array bound to power_trend (0: unbound)
    power_trend_smoothed,    \* address of the array bound to power_trend_smoothed
    smooth_threshold,        \* the threshold handed to smoothness
    smooth_calls,            \* number of calls of smoothness made so far
    deriv_before,            \* content of the argument array when smoothness was first called
    smooth_first,            \* content of the array the first call returned
    potential_usage_period,
    usage_period_temp,
    usage_period,
    usage_time_indication,
    start_stop_time_index,
    usage_ctr,
    printed                  \* the event lines printed: <<counter, start ts, stop ts, start index, stop index>>

vars == <<pc, err, csv, signal_df, timestamp, power, time_index, fs, cutoff,
          coeffs, lfilter_calls, power_denoised, heap, power_trend,
          power_trend_smoothed, smooth_threshold, smooth_calls, deriv_before,
          smooth_first, potential_usage_period, usage_period_temp,
          usage_period, usage_time_indication, start_stop_time_index,
          usage_ctr, printed>>

(***************************************************************************)
(* Bounds of the model.                                                    *)
(***************************************************************************)
MaxSamples == 12             \* longest csv of the whole-script specification
MaxN == 19                   \* longest candidate indicator of SpecDetect
MaxOnes == 3                 \* most nonzero entries of a candidate indicator
MaxDeriv == 3                \* longest array handed to smoothness in SpecSmooth
MaxValue == 2                \* largest magnitude of an entry in SpecSmooth
MaxThreshold == 2            \* largest threshold in SpecSmooth
MaxCutoff == 6               \* largest cutoff frequency in SpecFilter
MaxFilterLen == 3            \* longest signal in SpecFilter

PowerLevels == {0, 2000}     \* 0 W and 20 W, in hundredths
SamplingRates == {0, 4, 10}  \* sampling frequencies of SpecFilter

(***************************************************************************)
(* Program constants.                                                      *)
(***************************************************************************)
FsDefault == 10              \* fs = 10.0
CutoffDefault == 3           \* cutoff = 3.0
OrderDefault == 5            \* order=5
SmoothThreshold == 150       \* smooth_threshold = 1.5, in hundredths
WarmupSamples == 10          \* usage_time_indication[0:10] = 0

\* the kernel with its three ones one place off centre
usage_pattern_off_centre == <<0, 0, 0, 0, 1, 1, 1, 0, 0>>

\* line 118
usage_pattern == <<0, 0, 0, 1, 1, 1, 0, 0, 0>>

NoArray == <<>>
NoCoeffs == [b |-> <<>>, a |-> <<>>]

(***************************************************************************)
(* numpy helpers.                                                          *)
(***************************************************************************)
Min(x, y) == IF x < y THEN x ELSE y

\* range(n): the indices 0 .. n-1
range(n) == [i \in 1..n |-> i - 1]

\* np.append(a, v)
np_append(a, v) == Append(a, v)

\* np.diff(a): a[i+1] - a[i]; one entry shorter than a
np_diff(a) == [i \in 1..(Len(a) - 1) |-> a[i + 1] - a[i]]

\* np.sign, elementwise
sign(x) == IF x > 0 THEN 1 ELSE IF x < 0 THEN -1 ELSE 0
np_sign(a) == [i \in 1..Len(a) |-> sign(a[i])]

\* np.zeros(n)
np_zeros(n) == [i \in 1..n |-> 0]

\* np.nonzero(a)[0]: the 0-based indices of the nonzero entries, ascending
np_nonzero(a) == SelectSeq(range(Len(a)), LAMBDA i : a[i + 1] # 0)

\* one entry of the full linear convolution of a and v, k 0-based
RECURSIVE ConvSum(_, _, _, _)
ConvSum(a, v, k, j) ==
    IF j >= Len(a) THEN 0
    ELSE (IF k - j >= 0 /\ k - j < Len(v) THEN a[j + 1] * v[k - j + 1] ELSE 0)
         + ConvSum(a, v, k, j + 1)

\* np.convolve(a, v, 'same'): the longer operand decides the length; the
\* result is the centre of the full convolution, starting (n2 - 1) div 2
\* entries in, n2 the length of the shorter operand.
ConvolveSameOffset(n2) == (n2 - 1) \div 2

\* mode 'full' in place of 'same': every entry of the full convolution
np_convolve_full(a, v) ==
    [i \in 1..(Len(a) + Len(v) - 1) |-> ConvSum(a, v, i - 1, 0)]

np_convolve_same(a, v) ==
    LET long == IF Len(v) > Len(a) THEN v ELSE a
        short == IF Len(v) > Len(a) THEN a ELSE v
        off == ConvolveSameOffset(Len(short))
    IN  [i \in 1..Len(long) |-> ConvSum(long, short, i - 1 + off, 0)]

(***************************************************************************)
(* scipy.signal.butter and lfilter, as the script uses them.               *)
(***************************************************************************)
\* butter(order, Wn, btype='low', analog=False) for order 5: the numerator
\* and denominator of the digital Butterworth low-pass filter, scaled by
\* 10000 and rounded.  Wn is given in tenths of the Nyquist frequency.
butter_b(tenths) ==
    CASE tenths = 1 -> <<1, 3, 6, 6, 3, 1>>
      [] tenths = 2 -> <<13, 64, 128, 128, 64, 13>>
      [] tenths = 3 -> <<69, 347, 693, 693, 347, 69>>
      [] tenths = 4 -> <<219, 1097, 2194, 2194, 1097, 219>>
      [] tenths = 5 -> <<528, 2639, 5279, 5279, 2639, 528>>
      [] tenths = 6 -> <<1084, 5419, 10837, 10837, 5419, 1084>>
      [] tenths = 7 -> <<2019, 10094, 20189, 20189, 10094, 2019>>
      [] tenths = 8 -> <<3542, 17708, 35416, 35416, 17708, 3542>>
      [] tenths = 9 -> <<5999, 29997, 59994, 59994, 29997, 5999>>

butter_a(tenths) ==
    CASE tenths = 1 -> <<10000, -39845, 64349, -52536, 21651, -3599>>
      [] tenths = 2 -> <<10000, -29754, 38060, -25453, 8811, -1254>>
      [] tenths = 3 -> <<10000, -19759, 20135, -11026, 3276, -407>>
      [] tenths = 4 -> <<10000, -9853, 9738, -3864, 1112, -113>>
      [] tenths = 5 -> <<10000, 0, 6334, 0, 557, 0>>
      [] tenths = 6 -> <<10000, 9853, 9738, 3864, 1112, 113>>
      [] tenths = 7 -> <<10000, 19759, 20135, 11026, 3276, 407>>
      [] tenths = 8 -> <<10000, 29754, 38060, 25453, 8811, 1254>>
      [] tenths = 9 -> <<10000, 39845, 64349, 52536, 21651, 3599>>

\* butter raises ValueError ("Digital filter critical frequencies must be
\* 0 < Wn < 1") unless 0 < Wn < 1; Wn = num / den.
butter(order, num, den) ==
    IF ~(0 < num /\ num < den)
    THEN [err |-> "ValueError", b |-> <<>>, a |-> <<>>]
    ELSE [err |-> "", b |-> butter_b((10 * num) \div den),
                      a |-> butter_a((10 * num) \div den)]

\* the cutoff normalised by fs in place of the Nyquist frequency
butter_lowpass_by_fs(cutoff_hz, fs_hz, order) ==
    IF fs_hz = 0
    THEN [err |-> "ZeroDivisionError", b |-> <<>>, a |-> <<>>]
    ELSE butter(order, cutoff_hz, fs_hz)

\* butter_lowpass: nyq = 0.5 * fs; normal_cutoff = cutoff / nyq, that is
\* (2 * cutoff) / fs, a float division that raises ZeroDivisionError for
\* fs = 0; then butter.  The function checks nothing itself.
butter_lowpass(cutoff_hz, fs_hz, order) ==
    IF fs_hz = 0
    THEN [err |-> "ZeroDivisionError", b |-> <<>>, a |-> <<>>]
    ELSE butter(order, 2 * cutoff_hz, fs_hz)

\* sum over j = k .. Len(c)-1 of c[j] * s[n - j], for the n - j that exist
RECURSIVE Tap(_, _, _, _)
Tap(c, s, n, j) ==
    IF j >= Len(c) \/ n - j < 0 THEN 0
    ELSE c[j + 1] * s[n - j + 1] + Tap(c, s, n, j + 1)

\* lfilter(b, a, x): causal recursion with zero initial state,
\* a[0]*y[n] = sum b[k]*x[n-k] - sum_{k>=1} a[k]*y[n-k]; one output per input.
RECURSIVE lfilter_loop(_, _, _, _)
lfilter_loop(b, a, x, y) ==
    IF Len(y) >= Len(x) THEN y
    ELSE LET n == Len(y)
             acc == Tap(b, x, n, 0) - Tap(a, y, n, 1)
         IN  lfilter_loop(b, a, x, Append(y, acc \div a[1]))

lfilter(b, a, x) == lfilter_loop(b, a, x, <<>>)

(***************************************************************************)
(* smoothness(deriv_signal, smooth_threshold).  Arrays are objects:        *)
(* deriv_signal is an address into the heap h, and the assignment          *)
(* smooth_signal = deriv_signal binds a second name to the same object.    *)
(***************************************************************************)
\* the band with its ends included
InBandInclusive(x, t) == -t <= x /\ x <= t

\* line 68: -smooth_threshold < deriv_signal[i] < smooth_threshold
InBand(x, t) == -t < x /\ x < t

RECURSIVE smoothness_loop(_, _, _, _, _)
smoothness_loop(h, deriv_signal, smooth_signal, t, i) ==
    IF i >= Len(h[deriv_signal]) THEN h
    ELSE IF InBand(h[deriv_signal][i + 1], t)
         THEN smoothness_loop([h EXCEPT ![smooth_signal][i + 1] = 0],
                              deriv_signal, smooth_signal, t, i + 1)
         ELSE smoothness_loop(h, deriv_signal, smooth_signal, t, i + 1)

smoothness(h, deriv_signal, t) ==
    LET smooth_signal == deriv_signal
    IN  [heap |-> smoothness_loop(h, deriv_signal, smooth_signal, t, 0),
         ret |-> smooth_signal]

(***************************************************************************)
(* The output loop: for index in np.arange(0, len(idx), 2), print          *)
(* timestamp[idx[index]] and timestamp[idx[index + 1]].  An index past the *)
(* end of an array raises IndexError; the lines printed before it stay     *)
(* printed.  np.str is str.                                                *)
(***************************************************************************)
LoopStep == 2

\* the loop with the two indices of a pair taken in the other order
RECURSIVE print_loop_swapped(_, _, _, _, _)
print_loop_swapped(idx, ts, index, ctr, out) ==
    IF index >= Len(idx)
    THEN [printed |-> out, usage_ctr |-> ctr, err |-> ""]
    ELSE IF idx[index + 1] >= Len(ts) \/ index + 1 >= Len(idx)
         THEN [printed |-> out, usage_ctr |-> ctr, err |-> "IndexError"]
    ELSE IF idx[index + 2] >= Len(ts)
         THEN [printed |-> out, usage_ctr |-> ctr, err |-> "IndexError"]
    ELSE print_loop_swapped(idx, ts, index + LoopStep, ctr + 1,
                    Append(out, <<ctr, ts[idx[index + 2] + 1], ts[idx[index + 1] + 1],
                                  idx[index + 2], idx[index + 1]>>))

RECURSIVE print_loop(_, _, _, _, _)
print_loop(idx, ts, index, ctr, out) ==
    IF index >= Len(idx)
    THEN [printed |-> out, usage_ctr |-> ctr, err |-> ""]
    ELSE IF idx[index + 1] >= Len(ts) \/ index + 1 >= Len(idx)
         THEN [printed |-> out, usage_ctr |-> ctr, err |-> "IndexError"]
    ELSE IF idx[index + 2] >= Len(ts)
         THEN [printed |-> out, usage_ctr |-> ctr, err |-> "IndexError"]
    ELSE print_loop(idx, ts, index + LoopStep, ctr + 1,
                    Append(out, <<ctr, ts[idx[index + 1] + 1], ts[idx[index + 2] + 1],
                                  idx[index + 1], idx[index + 2]>>))

(***************************************************************************)
(* The script, statement group by statement group.                         *)
(***************************************************************************)
Fail(e) == pc' = "failed" /\ err' = e

\* lines 76-81: read the csv; a failure is caught, a message printed, and
\* the script goes on with signal_df unbound.
ReadCsv ==
    /\ pc = "read"
    /\ signal_df' = IF csv.ok THEN [bound |-> TRUE, rows |-> csv.rows]
                              ELSE [bound |-> FALSE, rows |-> <<>>]
    /\ pc' = "decompose"
    /\ UNCHANGED <<err, csv, timestamp, power, time_index, fs, cutoff, coeffs,
                   lfilter_calls, power_denoised, heap, power_trend,
                   power_trend_smoothed, smooth_threshold, smooth_calls,
                   deriv_before, smooth_first, potential_usage_period,
                   usage_period_temp, usage_period, usage_time_indication,
                   start_stop_time_index, usage_ctr, printed>>

\* lines 84-86: timestamp, power and time_index from the data frame
Decompose ==
    /\ pc = "decompose"
    /\ IF ~signal_df.bound
       THEN /\ Fail("NameError")
            /\ UNCHANGED <<timestamp, power, time_index>>
       ELSE /\ timestamp' = [i \in 1..Len(signal_df.rows) |-> signal_df.rows[i][1]]
            /\ power' = [i \in 1..Len(signal_df.rows) |-> signal_df.rows[i][2]]
            /\ time_index' = range(Len(signal_df.rows))
            /\ pc' = "params"
            /\ err' = err
    /\ UNCHANGED <<csv, signal_df, fs, cutoff, coeffs,
                   lfilter_calls, power_denoised, heap, power_trend,
                   power_trend_smoothed, smooth_threshold, smooth_calls,
                   deriv_before, smooth_first, potential_usage_period,
                   usage_period_temp, usage_period, usage_time_indication,
                   start_stop_time_index, usage_ctr, printed>>

\* lines 92-93: the filter parameters
Params ==
    /\ pc = "params"
    /\ fs' = FsDefault
    /\ cutoff' = CutoffDefault
    /\ pc' = "design"
    /\ UNCHANGED <<err, csv, signal_df, timestamp, power, time_index, coeffs,
                   lfilter_calls, power_denoised, heap, power_trend,
                   power_trend_smoothed, smooth_threshold, smooth_calls,
                   deriv_before, smooth_first, potential_usage_period,
                   usage_period_temp, usage_period, usage_time_indication,
                   start_stop_time_index, usage_ctr, printed>>

\* line 96 entering butter_lowpass_filter, line 48: b, a = butter_lowpass(...)
FilterDesign ==
    /\ pc = "design"
    /\ LET r == butter_lowpass(cutoff, fs, OrderDefault)
       IN  IF r.err # ""
           THEN Fail(r.err) /\ coeffs' = coeffs
           ELSE /\ coeffs' = [b |-> r.b, a |-> r.a]
                /\ pc' = "apply"
                /\ err' = err
    /\ UNCHANGED <<csv, signal_df, timestamp, power, time_index, fs, cutoff,
                   lfilter_calls, power_denoised, heap, power_trend,
                   power_trend_smoothed, smooth_threshold, smooth_calls,
                   deriv_before, smooth_first, potential_usage_period,
                   usage_period_temp, usage_period, usage_time_indication,
                   start_stop_time_index, usage_ctr, printed>>

\* lines 49-50 and the assignment of line 96: y = lfilter(b, a, signal)
FilterApply ==
    /\ pc = "apply"
    /\ power_denoised' = lfilter(coeffs.b, coeffs.a, power)
    /\ lfilter_calls' = lfilter_calls + 1
    /\ pc' = "trend"
    /\ UNCHANGED <<err, csv, signal_df, timestamp, power, time_index, fs, cutoff,
                   coeffs, heap, power_trend,
                   power_trend_smoothed, smooth_threshold, smooth_calls,
                   deriv_before, smooth_first, potential_usage_period,
                   usage_period_temp, usage_period, usage_time_indication,
                   start_stop_time_index, usage_ctr, printed>>

\* line 102: power_trend = np.diff(np.append(d, d[len(d)-1])); d[-1] of an
\* empty array raises IndexError.  The result is a new array object.
Trend ==
    /\ pc = "trend"
    /\ IF Len(power_denoised) = 0
       THEN Fail("IndexError") /\ UNCHANGED <<heap, power_trend>>
       ELSE /\ heap' = Append(heap, np_diff(np_append(power_denoised,
                                       power_denoised[Len(power_denoised)])))
            /\ power_trend' = Len(heap) + 1
            /\ pc' = "smooth"
            /\ err' = err
    /\ UNCHANGED <<csv, signal_df, timestamp, power, time_index, fs, cutoff,
                   coeffs, lfilter_calls, power_denoised,
                   power_trend_smoothed, smooth_threshold, smooth_calls,
                   deriv_before, smooth_first, potential_usage_period,
                   usage_period_temp, usage_period, usage_time_indication,
                   start_stop_time_index, usage_ctr, printed>>

\* line 105: power_trend_smoothed = smoothness(power_trend, smooth_threshold = 1.5)
Smooth ==
    /\ pc = "smooth"
    /\ LET r == smoothness(heap, power_trend, SmoothThreshold)
       IN  /\ heap' = r.heap
           /\ power_trend_smoothed' = r.ret
           /\ smooth_first' = r.heap[r.ret]
    /\ smooth_threshold' = SmoothThreshold
    /\ deriv_before' = heap[power_trend]
    /\ smooth_calls' = smooth_calls + 1
    /\ pc' = "candidate"
    /\ UNCHANGED <<err, csv, signal_df, timestamp, power, time_index, fs, cutoff,
                   coeffs, lfilter_calls, power_denoised, power_trend,
                   potential_usage_period,
                   usage_period_temp, usage_period, usage_time_indication,
                   start_stop_time_index, usage_ctr, printed>>

\* lines 111-112: zeros, then 1 at the nonzero entries of the smoothed trend
Candidate ==
    /\ pc = "candidate"
    /\ LET smoothed == heap[power_trend_smoothed]
           zeros == np_zeros(Len(smoothed))
           nz == np_nonzero(smoothed)
       IN  potential_usage_period' =
             [i \in 1..Len(zeros) |->
                 IF \E k \in 1..Len(nz) : nz[k] = i - 1 THEN 1 ELSE zeros[i]]
    /\ pc' = "convolve"
    /\ UNCHANGED <<err, csv, signal_df, timestamp, power, time_index, fs, cutoff,
                   coeffs, lfilter_calls, power_denoised, heap, power_trend,
                   power_trend_smoothed, smooth_threshold, smooth_calls,
                   deriv_before, smooth_first,
                   usage_period_temp, usage_period, usage_time_indication,
                   start_stop_time_index, usage_ctr, printed>>

\* lines 118-121: np.convolve(usage_pattern, potential_usage_period, 'same');
\* np.convolve raises ValueError for an empty operand.
Convolve ==
    /\ pc = "convolve"
    /\ IF Len(potential_usage_period) = 0
       THEN Fail("ValueError") /\ usage_period_temp' = usage_period_temp
       ELSE /\ usage_period_temp' = np_convolve_same(usage_pattern, potential_usage_period)
            /\ pc' = "sign"
            /\ err' = err
    /\ UNCHANGED <<csv, signal_df, timestamp, power, time_index, fs, cutoff,
                   coeffs, lfilter_calls, power_denoised, heap, power_trend,
                   power_trend_smoothed, smooth_threshold, smooth_calls,
                   deriv_before, smooth_first, potential_usage_period,
                   usage_period, usage_time_indication,
                   start_stop_time_index, usage_ctr, printed>>

\* line 124: usage_period = np.sign(usage_period_temp)
Sign ==
    /\ pc = "sign"
    /\ usage_period' = np_sign(usage_period_temp)
    /\ pc' = "edges"
    /\ UNCHANGED <<err, csv, signal_df, timestamp, power, time_index, fs, cutoff,
                   coeffs, lfilter_calls, power_denoised, heap, power_trend,
                   power_trend_smoothed, smooth_threshold, smooth_calls,
                   deriv_before, smooth_first, potential_usage_period,
                   usage_period_temp, usage_time_indication,
                   start_stop_time_index, usage_ctr, printed>>

\* line 130: np.diff(np.append(usage_period, usage_period[len(usage_period)-1]))
Edges ==
    /\ pc = "edges"
    /\ IF Len(usage_period) = 0
       THEN Fail("IndexError") /\ usage_time_indication' = usage_time_indication
       ELSE /\ usage_time_indication' =
                  np_diff(np_append(usage_period, usage_period[Len(usage_period)]))
            /\ pc' = "warmup"
            /\ err' = err
    /\ UNCHANGED <<csv, signal_df, timestamp, power, time_index, fs, cutoff,
                   coeffs, lfilter_calls, power_denoised, heap, power_trend,
                   power_trend_smoothed, smooth_threshold, smooth_calls,
                   deriv_before, smooth_first, potential_usage_period,
                   usage_period_temp, usage_period,
                   start_stop_time_index, usage_ctr, printed>>

\* line 133: usage_time_indication[0:10] = 0; the slice stops at the end of
\* a shorter array.
SuppressWarmup(a) ==
    [i \in 1..Len(a) |-> IF i - 1 < Min(WarmupSamples, Len(a)) THEN 0 ELSE a[i]]

Warmup ==
    /\ pc = "warmup"
    /\ usage_time_indication' = SuppressWarmup(usage_time_indication)
    /\ pc' = "output"
    /\ UNCHANGED <<err, csv, signal_df, timestamp, power, time_index, fs, cutoff,
                   coeffs, lfilter_calls, power_denoised, heap, power_trend,
                   power_trend_smoothed, smooth_threshold, smooth_calls,
                   deriv_before, smooth_first, potential_usage_period,
                   usage_period_temp, usage_period,
                   start_stop_time_index, usage_ctr, printed>>

\* lines 139-144: the nonzero transitions, printed in consecutive pairs
Output ==
    /\ pc = "output"
    /\ start_stop_time_index' = np_nonzero(usage_time_indication)
    /\ LET r == print_loop(np_nonzero(usage_time_indication), timestamp, 0, 1, <<>>)
       IN  /\ printed' = r.printed
           /\ usage_ctr' = r.usage_ctr
           /\ err' = r.err
           /\ pc' = IF r.err = "" THEN "visualize" ELSE "failed"
    /\ UNCHANGED <<csv, signal_df, timestamp, power, time_index, fs, cutoff,
                   coeffs, lfilter_calls, power_denoised, heap, power_trend,
                   power_trend_smoothed, smooth_threshold, smooth_calls,
                   deriv_before, smooth_first, potential_usage_period,
                   usage_period_temp, usage_period, usage_time_indication>>

\* lines 149-189: the plots; plot(x, y) raises ValueError when x and y
\* differ in length.
Visualize ==
    /\ pc = "visualize"
    /\ IF /\ Len(time_index) = Len(power)
          /\ Len(time_index) = Len(power_denoised)
          /\ Len(time_index) = Len(heap[power_trend_smoothed])
          /\ Len(time_index) = Len(potential_usage_period)
          /\ Len(time_index) = Len(usage_period)
          /\ Len(timestamp) = Len(power)
          /\ Len(timestamp) = Len(usage_time_indication)
       THEN pc' = "done" /\ err' = err
       ELSE Fail("ValueError")
    /\ UNCHANGED <<csv, signal_df, timestamp, power, time_index, fs, cutoff,
                   coeffs, lfilter_calls, power_denoised, heap, power_trend,
                   power_trend_smoothed, smooth_threshold, smooth_calls,
                   deriv_before, smooth_first, potential_usage_period,
                   usage_period_temp, usage_period, usage_time_indication,
                   start_stop_time_index, usage_ctr, printed>>

(***************************************************************************)
(* The whole script, over every csv of at most MaxSamples rows.            *)
(***************************************************************************)
\* the rows of a csv whose i-th power value is p[i]; the timestamp of a row
\* is its number
Rows(p) == [i \in 1..Len(p) |-> <<i - 1, p[i]>>]

CsvFiles ==
    {[ok |-> FALSE, rows |-> <<>>]} \cup
    {[ok |-> TRUE, rows |-> Rows(p)] :
        p \in UNION {[1..n -> PowerLevels] : n \in 0..MaxSamples}}

Idle ==
    /\ err = ""
    /\ signal_df = [bound |-> FALSE, rows |-> <<>>]
    /\ timestamp = NoArray /\ power = NoArray /\ time_index = NoArray
    /\ fs = 0 /\ cutoff = 0
    /\ coeffs = NoCoeffs
    /\ lfilter_calls = 0
    /\ power_denoised = NoArray
    /\ heap = <<>>
    /\ power_trend = 0 /\ power_trend_smoothed = 0
    /\ smooth_threshold = 0 /\ smooth_calls = 0
    /\ deriv_before = NoArray /\ smooth_first = NoArray
    /\ potential_usage_period = NoArray
    /\ usage_period_temp = NoArray
    /\ usage_period = NoArray
    /\ usage_time_indication = NoArray
    /\ start_stop_time_index = NoArray
    /\ usage_ctr = 1
    /\ printed = <<>>

Init ==
    /\ pc = "read"
    /\ csv \in CsvFiles
    /\ Idle

Next ==
    \/ ReadCsv
    \/ Decompose
    \/ Params
    \/ FilterDesign
    \/ FilterApply
    \/ Trend
    \/ Smooth
    \/ Candidate
    \/ Convolve
    \/ Sign
    \/ Edges
    \/ Warmup
    \/ Output
    \/ Visualize

Spec == Init /\ [][Next]_vars

(***************************************************************************)
(* The pattern matcher and the edge extractor (lines 118-144) over every   *)
(* candidate indicator of at most MaxN entries with at most MaxOnes ones.  *)
(* The last entry of a candidate is 0: it comes from the trend, whose last *)
(* entry is the difference of the duplicated last sample.                  *)
(***************************************************************************)
Candidates(n) ==
    {[i \in 1..n |-> IF \E k \in 1..MaxOnes : pos[k] = i THEN 1 ELSE 0] :
        pos \in [1..MaxOnes -> 0..(n - 1)]}

InitDetect ==
    /\ pc = "convolve"
    /\ err = ""
    /\ csv = [ok |-> TRUE, rows |-> <<>>]
    /\ signal_df = [bound |-> TRUE, rows |-> <<>>]
    /\ \E n \in 1..MaxN :
         /\ potential_usage_period \in Candidates(n)
         /\ timestamp = range(n)
         /\ time_index = range(n)
    /\ power = NoArray
    /\ fs = FsDefault /\ cutoff = CutoffDefault
    /\ coeffs = NoCoeffs
    /\ lfilter_calls = 0
    /\ power_denoised = NoArray
    /\ heap = <<>>
    /\ power_trend = 0 /\ power_trend_smoothed = 0
    /\ smooth_threshold = 0 /\ smooth_calls = 0
    /\ deriv_before = NoArray /\ smooth_first = NoArray
    /\ usage_period_temp = NoArray
    /\ usage_period = NoArray
    /\ usage_time_indication = NoArray
    /\ start_stop_time_index = NoArray
    /\ usage_ctr = 1
    /\ printed = <<>>

NextDetect ==
    \/ Convolve
    \/ Sign
    \/ Edges
    \/ Warmup
    \/ Output

SpecDetect == InitDetect /\ [][NextDetect]_vars

(***************************************************************************)
(* smoothness alone, called twice in a row on an array of at most MaxDeriv *)
(* entries: the second call is handed what the first returned.             *)
(***************************************************************************)
InitSmooth ==
    /\ pc = "smooth"
    /\ err = ""
    /\ csv = [ok |-> TRUE, rows |-> <<>>]
    /\ signal_df = [bound |-> TRUE, rows |-> <<>>]
    /\ timestamp = NoArray /\ power = NoArray /\ time_index = NoArray
    /\ fs = FsDefault /\ cutoff = CutoffDefault
    /\ coeffs = NoCoeffs
    /\ lfilter_calls = 0
    /\ power_denoised = NoArray
    /\ \E n \in 0..MaxDeriv :
         \E d \in [1..n -> (-MaxValue)..MaxValue] : heap = <<d>>
    /\ power_trend = 1
    /\ power_trend_smoothed = 0
    /\ smooth_threshold \in (-MaxThreshold)..MaxThreshold
    /\ smooth_calls = 0
    /\ deriv_before = NoArray /\ smooth_first = NoArray
    /\ potential_usage_period = NoArray
    /\ usage_period_temp = NoArray
    /\ usage_period = NoArray
    /\ usage_time_indication = NoArray
    /\ start_stop_time_index = NoArray
    /\ usage_ctr = 1
    /\ printed = <<>>

CallSmoothness ==
    /\ pc \in {"smooth", "smooth_again"}
    /\ LET arg == IF pc = "smooth" THEN power_trend ELSE power_trend_smoothed
           r == smoothness(heap, arg, smooth_threshold)
       IN  /\ heap' = r.heap
           /\ power_trend_smoothed' = r.ret
           /\ deriv_before' = IF pc = "smooth" THEN heap[arg] ELSE deriv_before
           /\ smooth_first' = IF pc = "smooth" THEN r.heap[r.ret] ELSE smooth_first
    /\ smooth_calls' = smooth_calls + 1
    /\ pc' = IF pc = "smooth" THEN "smooth_again" ELSE "returned"
    /\ UNCHANGED <<err, csv, signal_df, timestamp, power, time_index, fs, cutoff,
                   coeffs, lfilter_calls, power_denoised, power_trend,
                   smooth_threshold, potential_usage_period,
                   usage_period_temp, usage_period, usage_time_indication,
                   start_stop_time_index, usage_ctr, printed>>

NextSmooth == CallSmoothness

SpecSmooth == InitSmooth /\ [][NextSmooth]_vars

(***************************************************************************)
(* butter_lowpass_filter alone, over cutoff and sampling frequencies on    *)
(* both sides of the Nyquist limit.                                        *)
(***************************************************************************)
InitFilter ==
    /\ pc = "design"
    /\ err = ""
    /\ csv = [ok |-> TRUE, rows |-> <<>>]
    /\ signal_df = [bound |-> TRUE, rows |-> <<>>]
    /\ timestamp = NoArray /\ time_index = NoArray
    /\ power \in UNION {[1..n -> PowerLevels] : n \in 0..MaxFilterLen}
    /\ fs \in SamplingRates
    /\ cutoff \in 0..MaxCutoff
    /\ coeffs = NoCoeffs
    /\ lfilter_calls = 0
    /\ power_denoised = NoArray
    /\ heap = <<>>
    /\ power_trend = 0 /\ power_trend_smoothed = 0
    /\ smooth_threshold = 0 /\ smooth_calls = 0
    /\ deriv_before = NoArray /\ smooth_first = NoArray
    /\ potential_usage_period = NoArray
    /\ usage_period_temp = NoArray
    /\ usage_period = NoArray
    /\ usage_time_indication = NoArray
    /\ start_stop_time_index = NoArray
    /\ usage_ctr = 1
    /\ printed = <<>>

NextFilter ==
    \/ FilterDesign
    \/ FilterApply

SpecFilter == InitFilter /\ [][NextFilter]_vars

(***************************************************************************)
(* Properties.                                                             *)
(***************************************************************************)
\* the events printed, as 0-based index pairs
StartIndex(k) == printed[k][4]
StopIndex(k) == printed[k][5]

\* the output loop has run (to its end or to an exception)
OutputRan == pc \in {"visualize", "done"} \/ (pc = "failed" /\ usage_time_indication # NoArray)

\* the pattern matcher has produced the confirmed indicator
MatcherRan == usage_period # NoArray

\* C1 (as claimed): when the number of nonzero transitions left after the
\* warm-up entries are zeroed is odd, the run fails with UnpairedEventError.
C1_OddTransitionsRaiseUnpairedEventError ==
    (OutputRan /\ Len(np_nonzero(usage_time_indication)) % 2 = 1)
        => (pc = "failed" /\ err = "UnpairedEventError")

\* C2: once the output loop has completed without an exception, every
\* printed event has start index < stop index, and each event's stop
\* index is below the next event's start index.
C2_EventsOrderedAndDisjoint ==
    (pc \in {"visualize", "done"}) =>
        /\ \A k \in 1..Len(printed) : StartIndex(k) < StopIndex(k)
        /\ \A k \in 1..(Len(printed) - 1) : StopIndex(k) < StartIndex(k + 1)

C2_TwoEventsPrinted ==
    /\ pc = "visualize"
    /\ Len(printed) >= 2
    /\ Len(start_stop_time_index) = 2 * Len(printed)

\* C3 (as claimed): every printed event starts where the transition signal
\* is +1 and stops where it is -1.
C3_StartRisingStopFalling ==
    OutputRan =>
        \A k \in 1..Len(printed) :
            /\ usage_time_indication[StartIndex(k) + 1] = 1
            /\ usage_time_indication[StopIndex(k) + 1] = -1

\* C6 (as claimed): a candidate indicator whose only nonzero entry is one 1
\* with a zero on each side gives an all-zero confirmed indicator and no
\* printed event.
IsolatedSpike(c) ==
    \E i \in 2..(Len(c) - 1) :
        /\ c[i] = 1
        /\ \A j \in 1..Len(c) : j # i => c[j] = 0

C6_IsolatedSpikeRejected ==
    (MatcherRan /\ IsolatedSpike(potential_usage_period)) =>
        /\ \A i \in 1..Len(usage_period) : usage_period[i] = 0
        /\ printed = <<>>

\* C10: for a {0,1} candidate c of at least 9 entries the confirmed
\* indicator u has the length of c and u[i] = 1 exactly when one of
\* c[i-1], c[i], c[i+1] is 1 (entries outside c counting as 0), u[i] = 0
\* otherwise; so u[i] >= c[i].
CandidateAt(i) ==
    IF i >= 1 /\ i <= Len(potential_usage_period) THEN potential_usage_period[i] ELSE 0

C10_ConfirmedIsDilation ==
    (MatcherRan /\ Len(potential_usage_period) >= Len(usage_pattern)) =>
        /\ Len(usage_period) = Len(potential_usage_period)
        /\ \A i \in 1..Len(usage_period) :
              /\ usage_period[i] \in {0, 1}
              /\ usage_period[i] = 1 <=>
                    (CandidateAt(i - 1) = 1 \/ CandidateAt(i) = 1 \/ CandidateAt(i + 1) = 1)
              /\ usage_period[i] >= potential_usage_period[i]

C10_DilatedCandidate ==
    /\ pc = "edges"
    /\ Len(potential_usage_period) >= Len(usage_pattern)
    /\ \E i \in 2..(Len(usage_period) - 1) :
          /\ potential_usage_period[i] = 0
          /\ usage_period[i] = 1
          /\ potential_usage_period[i - 1] = 0
    /\ \E i \in 1..Len(usage_period) : usage_period[i] = 0

\* C5 (as claimed): smoothness leaves the array it was handed unchanged:
\* after the call returns, every entry of deriv_signal equals its value
\* before the call.
C5_InputLeftUnchanged ==
    (smooth_calls = 1) => heap[power_trend] = deriv_before

\* C9: the second of two calls of smoothness with the same threshold returns
\* what the first returned; and the first returns 0 exactly at the entries
\* x with -t < x < t and the entry itself everywhere else.
C9_SmoothingIdempotent ==
    (smooth_calls = 2) =>
        /\ heap[power_trend_smoothed] = smooth_first
        /\ Len(smooth_first) = Len(deriv_before)
        /\ \A i \in 1..Len(deriv_before) :
              smooth_first[i] =
                 IF -smooth_threshold < deriv_before[i] /\ deriv_before[i] < smooth_threshold
                 THEN 0 ELSE deriv_before[i]

C9_SmoothedTwice ==
    /\ smooth_calls = 2
    /\ \E i \in 1..Len(deriv_before) : deriv_before[i] # 0 /\ smooth_first[i] = 0
    /\ \E i \in 1..Len(deriv_before) : smooth_first[i] = smooth_threshold

\* the cutoff is at or above the Nyquist frequency 0.5 * fs
AtOrAboveNyquist == 2 * cutoff >= fs

NumSamples == Len(csv.rows)

LengthsPreserved ==
    /\ lfilter_calls > 0 => Len(power_denoised) = NumSamples
    /\ power_trend # 0 => Len(heap[power_trend]) = NumSamples
    /\ power_trend_smoothed # 0 => Len(heap[power_trend_smoothed]) = NumSamples
    /\ pc \in {"convolve", "sign", "edges", "warmup", "output", "visualize", "done"}
          => Len(potential_usage_period) = NumSamples
    /\ pc \in {"edges", "warmup", "output", "visualize", "done"}
          => Len(usage_period) = NumSamples
    /\ MatcherRan => Len(usage_period) = NumSamples

C7_ShortSignalRaisesEmptySignalError ==
    (csv.ok /\ NumSamples <= 1) =>
        /\ power_trend = 0
        /\ usage_period = NoArray
        /\ pc \notin {"visualize", "done"}
        /\ pc = "failed" => err = "EmptySignalError"

====
